---- MODULE Spec2Model ----
(***************************************************************************)
(* Model of the range module of imagemask:                                 *)
(*   - NonZeroRange               (src/src/range/non_zero.rs)              *)
(*   - OrderedRangeItem, NonEmptyOrderedRanges, OrderedRangeIter           *)
(*                                (src/src/range/mod.rs)                   *)
(*   - OrderedNonOverlappingRangeIter                                      *)
(*                                (src/src/range/merge_ordered_iter.rs)    *)
(*   - DebugAssertSortedByIter    (src/src/range/assert_sorted_iter.rs)    *)
(*                                                                         *)
(* The specifications share the variables: SpecMerge drives the merge      *)
(* iterator over every sorted upstream sequence within the bounds,         *)
(* SpecStore drives try_from_ordered_iter and iter() of the compact store, *)
(* SpecRange applies the operations of NonZeroRange to arbitrary operands, *)
(* SpecPipeline hands the merge iterator to try_from_ordered_iter.         *)
(***************************************************************************)
EXTENDS Integers, Sequences, FiniteSets, TLC

\* ---------------------------------------------------------------- bounds
\* Coordinates of merge inputs are 0..MaxCoord.
MaxCoord == 4
\* Priorities of merge inputs are 0..MaxPrio.
MaxPrio == 2
\* The upstream iterator of the merge engine yields at most MaxLen items.
MaxLen == 3
\* try_from_ordered_iter pulls at most MaxItems items.
MaxItems == 3

\* ------------------------------------------------------ program constants
\* u32::MAX of comparator(), held at the largest integer TLC represents
\* (2^31 - 1); comparator() only relies on it being >= every priority
U32Max == 2147483647
U8Max == 255
U16Max == 65535

\* ---------------------------------------------------------------- helpers
None == [some |-> FALSE]
Some(v) == [some |-> TRUE, value |-> v]

Range(s, e) == [start |-> s, end |-> e]

\* std::ops::Range::is_empty : !(start < end)
RangeIsEmpty_eq(s, e) == s = e

RangeIsEmpty(s, e) == ~(s < e)

\* impl TryFrom<Range<T>> for NonZeroRange<T>
NonZeroRange_try_from(s, e) ==
    IF RangeIsEmpty(s, e)
    THEN [ok |-> FALSE, err |-> Range(s, e)]
    ELSE [ok |-> TRUE, value |-> Range(s, e)]

\* NonZeroRange::overlaps
overlaps_le(a, b) == a.start <= b.end /\ b.start <= a.end

overlaps(a, b) == a.start < b.end /\ b.start < a.end

\* T + T and T - T for an unsigned T whose largest value is max, as a build
\* with overflow checks ("debug") or without them ("release") performs it:
\* the first panics on overflow, the second wraps modulo max + 1
Plus(a, b, max, build) ==
    IF a + b > max
    THEN IF build = "debug" THEN [panic |-> TRUE] ELSE [panic |-> FALSE, value |-> (a + b) % (max + 1)]
    ELSE [panic |-> FALSE, value |-> a + b]

Minus(a, b, max, build) ==
    IF a < b
    THEN IF build = "debug" THEN [panic |-> TRUE] ELSE [panic |-> FALSE, value |-> (a - b + max + 1) % (max + 1)]
    ELSE [panic |-> FALSE, value |-> a - b]

\* impl Add<T> for NonZeroRange<T>: start + rhs, then end + rhs
NonZeroRange_add(r, rhs, max, build) ==
    LET start == Plus(r.start, rhs, max, build)
        end == Plus(r.end, rhs, max, build)
    IN IF start.panic \/ end.panic
       THEN [panic |-> TRUE]
       ELSE [panic |-> FALSE, value |-> Range(start.value, end.value)]

\* impl Sub<T> for NonZeroRange<T>: start - rhs, then end - rhs
NonZeroRange_sub(r, rhs, max, build) ==
    LET start == Minus(r.start, rhs, max, build)
        end == Minus(r.end, rhs, max, build)
    IN IF start.panic \/ end.panic
       THEN [panic |-> TRUE]
       ELSE [panic |-> FALSE, value |-> Range(start.value, end.value)]

\* NonZeroRange::len : end - start
NonZeroRange_len(r, max, build) == Minus(r.end, r.start, max, build)

\* OrderedRangeItem::comparator : (start, u32::MAX - priority)
comparator(x) == <<x.range.start, U32Max - x.priority>>

\* Ord on (u32, u32) tuples: a >= b
TupleGe(a, b) == a[1] > b[1] \/ (a[1] = b[1] /\ a[2] >= b[2])

\* ------------------------------------------------------------- VecDeque
\* VecDeque::insert(index, value), index counted from 0
Insert_before(q, index, x) ==
    SubSeq(q, 1, index - 1) \o <<x>> \o SubSeq(q, index, Len(q))

Insert(q, index, x) == SubSeq(q, 1, index) \o <<x>> \o SubSeq(q, index + 1, Len(q))
\* VecDeque::remove(index), index counted from 0
Remove(q, index) == SubSeq(q, 1, index) \o SubSeq(q, index + 2, Len(q))
\* VecDeque::push_front
PushFront(q, x) == <<x>> \o q

\* ------------------------------------------------------ insert_remainer
\* line 44: the existing remainder ends at or before the new item starts
NoOverlapAnymore(existing, new) == existing.range.end <= new.range.start

\* line 49: the existing remainder keeps the overlap (ties favour existing)
ExistingHasPrio(existing, new) == existing.priority >= new.priority

\* line 52: the part of new behind the existing remainder
AfterExisting_unchecked(existing, new) ==
    [ok |-> TRUE, value |-> Range(existing.range.end, new.range.end)]

AfterExisting(existing, new) ==
    NonZeroRange_try_from(existing.range.end, new.range.end)

\* line 62: the part of existing behind new
MaybeAfter_dropped(existing, new) ==
    [ok |-> FALSE, err |-> Range(new.range.end, existing.range.end)]

MaybeAfter(existing, new) ==
    NonZeroRange_try_from(new.range.end, existing.range.end)

\* line 63: the part of existing in front of new
MaybeBefore(existing, new) ==
    NonZeroRange_try_from(existing.range.start, new.range.start)

\* lines 68-72: the clone of existing that carries the "after" range
AfterValue_no_meta(existing, after) ==
    [range |-> after, priority |-> existing.priority, meta |-> 0]

AfterValue(existing, after) ==
    [range |-> after, priority |-> existing.priority, meta |-> existing.meta]

\* lines 41-93: the backward scan, idx as in the source (counted from 0)
RECURSIVE InsertScan(_, _, _)
InsertScan(q, idx, new) ==
    IF idx = 0
    THEN PushFront(q, new)
    ELSE LET i == idx - 1
             existing == q[i + 1]
         IN IF NoOverlapAnymore(existing, new)
            THEN Insert(q, i + 1, new)
            ELSE IF ExistingHasPrio(existing, new)
            THEN LET after_existing == AfterExisting(existing, new)
                 IN IF after_existing.ok
                    THEN Insert(q, i + 1, [new EXCEPT !.range = after_existing.value])
                    ELSE q
            ELSE LET maybe_after == MaybeAfter(existing, new)
                     maybe_before == MaybeBefore(existing, new)
                 IN CASE maybe_before.ok /\ maybe_after.ok ->
                           Insert(Insert([q EXCEPT ![i + 1].range = maybe_before.value],
                                         i + 1, new),
                                  i + 2, AfterValue(existing, maybe_after.value))
                      [] maybe_before.ok /\ ~maybe_after.ok ->
                           Insert([q EXCEPT ![i + 1].range = maybe_before.value], i + 1, new)
                      [] ~maybe_before.ok /\ maybe_after.ok ->
                           InsertScan([q EXCEPT ![i + 1].range = maybe_after.value], i, new)
                      [] OTHER ->
                           InsertScan(Remove(q, i), i, new)

insert_remainer(ordered_non_overlapping, new) ==
    InsertScan(ordered_non_overlapping, Len(ordered_non_overlapping), new)

\* ------------------------------------------------ compact store: helpers
Ok(v) == [ok |-> TRUE, value |-> v]
Err(e) == [ok |-> FALSE, err |-> e]

\* format!("{} must be > {}", end, start)
MustBeGreater(end, start) == [kind |-> "must be >", a |-> end, b |-> start]
\* TryFromIntError: "out of range integral type conversion attempted"
OutOfRange == [kind |-> "out of range", a |-> 0, b |-> 0]
\* "Requires at least one item"
RequiresOneItem == [kind |-> "Requires at least one item", a |-> 0, b |-> 0]

\* T::try_from(u64) for an unsigned T whose largest value is max
TryFromU64_wrapping(v, max) == Ok(v % (max + 1))

TryFromU64(v, max) == IF v > max THEN Err(OutOfRange) ELSE Ok(v)

\* create_checked::<T>(start, end), lines 61-69
create_checked_lt(max, start, end) ==
    IF end < start
    THEN Err(MustBeGreater(end, start))
    ELSE TryFromU64(end - start, max)

create_checked(max, start, end) ==
    IF end <= start
    THEN Err(MustBeGreater(end, start))
    ELSE TryFromU64(end - start, max)

\* line 88: the gap between the previous interval and the next one
Gap_to_end(max, cur_pos, next_range) ==
    create_checked(max, cur_pos, next_range.end)

Gap(max, cur_pos, next_range) ==
    create_checked(max, cur_pos, next_range.start)

\* lines 76-78: the input has no first item
EmptyInput_ok ==
    Ok([initial_offset |-> 0, included |-> <<>>, excluded |-> <<>>, meta |-> <<>>])

EmptyInput == Err(RequiresOneItem)

\* lines 134, 138: the offset behind an interval and its gap
NextOffset_no_gap(out_range_end, exclude) == out_range_end

NextOffset(out_range_end, exclude) == out_range_end + exclude

\* ------------------------------------------------------------ variables
VARIABLES
    \* OrderedNonOverlappingRangeIter
    consumed,       \* items the upstream iterator has yielded so far, in order
    fused,          \* std::iter::Fuse has seen None from upstream
    remainers,      \* self.remainers
    max_start,      \* self.max_start
    pc,             \* position inside next(): "idle" (no call active) or "loop"
    first_end,      \* local first_end of the active next() call
    output,         \* records returned by next() so far, in order
    returnedNone,   \* next() has returned None
    \* NonEmptyOrderedRanges::try_from_ordered_iter
    tInc,           \* largest value of the type parameter TIncluded
    tExc,           \* largest value of the type parameter TExcluded
    enc,            \* locals of the call: position, items pulled, vectors, cur_pos
    result,         \* the Result the call returned, None while it runs
    \* OrderedRangeIter
    dec,            \* the iterator made by iter(), None before iter() is called
    decoded,        \* what its next() has returned so far, in order
    \* NonZeroRange
    nz              \* the latest NonZeroRange operation: operands and result

mergeVars == <<consumed, fused, remainers, max_start, pc, first_end, output, returnedNone>>

storeVars == <<tInc, tExc, enc, result, dec, decoded>>

rangeVars == <<nz>>

vars == <<consumed, fused, remainers, max_start, pc, first_end, output, returnedNone,
          tInc, tExc, enc, result, dec, decoded, nz>>

\* ------------------------------------------------ merge engine: inputs
Coords == 0..MaxCoord
WideCoords == 0..(MaxCoord + 1)
Prios == 0..MaxPrio

\* upstream items: non-empty ranges; meta identifies the item (its position)
Item(s, e, p, m) == [range |-> Range(s, e), priority |-> p, meta |-> m]

\* DebugAssertSortedByIter::next : assert!(ord_value >= ord_last)
SortedAfterLast(item) ==
    IF consumed = <<>>
    THEN TRUE
    ELSE TupleGe(comparator(item), comparator(consumed[Len(consumed)]))

\* ------------------------------------------------ compact store: inputs
\* coordinates of the intervals handed to try_from_ordered_iter; the lengths
\* and gaps they form lie on both sides of u8::MAX and of u16::MAX
StoreCoords == {0, 10, 20, 30, 265, 276, 65545, 65546}
Metas == {"first", "second"}
\* the types the tests instantiate TIncluded and TExcluded with
NarrowTypes == {U8Max, U16Max}

\* no NonZeroRange operation has been applied
NoOp == [op |-> "none"]

\* the locals of try_from_ordered_iter before its first step
EncStart ==
    [pc |-> "start", input |-> <<>>, first_range |-> Range(0, 0),
     included |-> <<>>, excluded |-> <<>>, meta |-> <<>>, cur_pos |-> 0]

\* OrderedNonOverlappingRangeIter::new; no compact store is built
MergeInit ==
    /\ consumed = <<>>
    /\ fused = FALSE
    /\ remainers = <<>>
    /\ max_start = 0
    /\ pc = "idle"
    /\ first_end = None
    /\ output = <<>>
    /\ returnedNone = FALSE
    /\ tInc = U8Max
    /\ tExc = U8Max
    /\ enc = EncStart
    /\ result = None
    /\ dec = None
    /\ decoded = <<>>
    /\ nz = NoOp

\* try_from_ordered_iter::<TIncluded, TExcluded> is entered; the merge
\* iterator stays as constructed
StoreInit ==
    /\ consumed = <<>>
    /\ fused = FALSE
    /\ remainers = <<>>
    /\ max_start = 0
    /\ pc = "idle"
    /\ first_end = None
    /\ output = <<>>
    /\ returnedNone = FALSE
    /\ tInc \in NarrowTypes
    /\ tExc \in NarrowTypes
    /\ enc = EncStart
    /\ result = None
    /\ dec = None
    /\ decoded = <<>>
    /\ nz = NoOp

\* ------------------------------------------------ next(), lines 103-128
\* lines 106 / 122: the front can be released
Release_le(end, start) == end <= start

Release(end, start) == end < start

\* return self.remainers.pop_front()
PopFrontReturn_back(q) ==
    IF q = <<>>
    THEN /\ remainers' = q
         /\ returnedNone' = TRUE
         /\ output' = output
    ELSE /\ remainers' = SubSeq(q, 1, Len(q) - 1)
         /\ output' = Append(output, q[Len(q)])
         /\ returnedNone' = returnedNone

PopFrontReturn(q) ==
    IF q = <<>>
    THEN /\ remainers' = q
         /\ returnedNone' = TRUE
         /\ output' = output
    ELSE /\ remainers' = Tail(q)
         /\ output' = Append(output, Head(q))
         /\ returnedNone' = returnedNone

\* lines 104-113: entry of next()
NextEnter ==
    /\ pc = "idle"
    /\ IF remainers # <<>> /\ Release(Head(remainers).range.end, max_start)
       THEN /\ PopFrontReturn(remainers)
            /\ UNCHANGED <<pc, first_end>>
       ELSE /\ first_end' = IF remainers # <<>>
                            THEN Some(Head(remainers).range.end)
                            ELSE None
            /\ pc' = "loop"
            /\ UNCHANGED <<remainers, output, returnedNone>>
    /\ UNCHANGED <<consumed, fused, max_start>>
    /\ UNCHANGED storeVars
    /\ UNCHANGED rangeVars

\* lines 115-125: one iteration of the for loop, upstream yields Some(next)
\* with a range over coords; upstream yields at most maxLen items
Pull(coords, maxLen) ==
    /\ pc = "loop"
    /\ ~fused
    /\ Len(consumed) < maxLen
    /\ \E s \in coords, e \in coords, p \in Prios :
         /\ s < e
         /\ LET next == Item(s, e, p, Len(consumed) + 1)
                fe == IF first_end.some THEN first_end.value ELSE next.range.end
                q == insert_remainer(remainers, next)
            IN /\ SortedAfterLast(next)
               /\ consumed' = Append(consumed, next)
               /\ max_start' = next.range.start
               /\ IF Release(fe, next.range.start)
                  THEN /\ PopFrontReturn(q)
                       /\ pc' = "idle"
                       /\ first_end' = None
                  ELSE /\ remainers' = q
                       /\ pc' = "loop"
                       /\ first_end' = Some(fe)
                       /\ UNCHANGED <<output, returnedNone>>
    /\ UNCHANGED fused
    /\ UNCHANGED storeVars
    /\ UNCHANGED rangeVars

NextPull == Pull(Coords, MaxLen)

\* the same step over inputs one coordinate wider and one item longer
NextPullWide == Pull(WideCoords, MaxLen + 1)

\* lines 115, 127: upstream is exhausted, the loop ends and the front is popped
NextExhausted_unfused ==
    /\ pc = "loop"
    /\ fused' = fused
    /\ PopFrontReturn(remainers)
    /\ pc' = "idle"
    /\ first_end' = None
    /\ UNCHANGED <<consumed, max_start>>
    /\ UNCHANGED storeVars
    /\ UNCHANGED rangeVars

NextExhausted ==
    /\ pc = "loop"
    /\ fused' = TRUE
    /\ PopFrontReturn(remainers)
    /\ pc' = "idle"
    /\ first_end' = None
    /\ UNCHANGED <<consumed, max_start>>
    /\ UNCHANGED storeVars
    /\ UNCHANGED rangeVars

MergeNext == NextEnter \/ NextPull \/ NextExhausted

SpecMerge == MergeInit /\ [][MergeNext]_vars

MergeNextWide == NextEnter \/ NextPullWide \/ NextExhausted

\* the merge engine over the wider inputs
SpecMergeWide == MergeInit /\ [][MergeNextWide]_vars

\* the merge engine with a caller that keeps calling next() and an upstream
\* that is finite: some step of next() is always taken
SpecMergeLive == MergeInit /\ [][MergeNext]_vars /\ WF_vars(MergeNext)

\* ============================================================ compact store
\* lines 71-75: the mapped iterator yields one (range, meta) pair
StoreItem(s, e, m) == [range |-> Range(s, e), meta |-> m]

\* return Err(e)
ReturnErr(e, input) ==
    /\ enc' = [enc EXCEPT !.pc = "err", !.input = input]
    /\ result' = Some(Err(e))

\* lines 76-78: the input is empty
EncodeEmpty ==
    /\ enc.pc = "start"
    /\ enc' = [enc EXCEPT !.pc = IF EmptyInput.ok THEN "ok" ELSE "err"]
    /\ result' = Some(EmptyInput)
    /\ UNCHANGED <<tInc, tExc, dec, decoded>>
    /\ UNCHANGED mergeVars
    /\ UNCHANGED rangeVars

\* lines 76-85: the first item is (s..e, m)
EncodeFirstItem(s, e, m) ==
    LET input == Append(enc.input, StoreItem(s, e, m))
        first_len == create_checked(tInc, s, e)
    IN IF ~first_len.ok
       THEN ReturnErr(first_len.err, input)
       ELSE /\ enc' = [pc |-> "loop", input |-> input,
                       first_range |-> Range(s, e),
                       included |-> <<first_len.value>>,
                       excluded |-> <<>>,
                       meta |-> <<m>>,
                       cur_pos |-> e]
            /\ UNCHANGED result

\* lines 76-85: the first item, any pair of coordinates
EncodeFirst ==
    /\ enc.pc = "start"
    /\ MaxItems > 0
    /\ \E s \in StoreCoords, e \in StoreCoords, m \in Metas : EncodeFirstItem(s, e, m)
    /\ UNCHANGED <<tInc, tExc, dec, decoded>>
    /\ UNCHANGED mergeVars
    /\ UNCHANGED rangeVars

\* lines 86-92: one iteration of the for loop, the item is (s..e, m)
EncodeStepItem(s, e, m) ==
    LET input == Append(enc.input, StoreItem(s, e, m))
        next_len == create_checked(tInc, s, e)
        gap == Gap(tExc, enc.cur_pos, Range(s, e))
    IN IF ~next_len.ok
       THEN ReturnErr(next_len.err, input)
       ELSE IF ~gap.ok
       THEN ReturnErr(gap.err, input)
       ELSE /\ enc' = [enc EXCEPT !.input = input,
                                  !.excluded = Append(@, gap.value),
                                  !.included = Append(@, next_len.value),
                                  !.meta = Append(@, m),
                                  !.cur_pos = e]
            /\ UNCHANGED result

\* lines 86-92: one iteration of the for loop, any pair of coordinates
EncodeStep ==
    /\ enc.pc = "loop"
    /\ Len(enc.input) < MaxItems
    /\ \E s \in StoreCoords, e \in StoreCoords, m \in Metas : EncodeStepItem(s, e, m)
    /\ UNCHANGED <<tInc, tExc, dec, decoded>>
    /\ UNCHANGED mergeVars
    /\ UNCHANGED rangeVars

\* lines 94-99: the input is exhausted, the store is returned
EncodeFinish ==
    /\ enc.pc = "loop"
    /\ enc' = [enc EXCEPT !.pc = "ok"]
    /\ result' = Some(Ok([initial_offset |-> enc.first_range.start,
                          included |-> enc.included,
                          excluded |-> enc.excluded,
                          meta |-> enc.meta]))
    /\ UNCHANGED <<tInc, tExc, dec, decoded>>
    /\ UNCHANGED mergeVars
    /\ UNCHANGED rangeVars

\* NonEmptyOrderedRanges::iter, lines 101-108
Iter ==
    /\ result.some
    /\ result.value.ok
    /\ ~dec.some
    /\ dec' = Some([include |-> result.value.value.included,
                    excluded |-> result.value.value.excluded,
                    meta |-> result.value.value.meta,
                    offset |-> result.value.value.initial_offset,
                    done |-> FALSE])
    /\ UNCHANGED <<tInc, tExc, enc, result, decoded>>
    /\ UNCHANGED mergeVars
    /\ UNCHANGED rangeVars

\* OrderedRangeIter::next, lines 123-143
DecodeNext ==
    /\ dec.some
    /\ ~dec.value.done
    /\ LET it == dec.value
       IN IF it.include = <<>>
          THEN /\ dec' = Some([it EXCEPT !.done = TRUE])
               /\ UNCHANGED decoded
          ELSE IF it.meta = <<>>
          THEN /\ dec' = Some([it EXCEPT !.done = TRUE])
               /\ decoded' = Append(decoded, [unreachable |-> "There must be more metadata"])
          ELSE LET include == Head(it.include)
                   out_range_end == it.offset + include
                   out_range == Range(it.offset, out_range_end)
               IN /\ dec' = Some([it EXCEPT
                                    !.include = Tail(@),
                                    !.meta = Tail(@),
                                    !.offset = IF it.excluded # <<>>
                                               THEN NextOffset(out_range_end, Head(it.excluded))
                                               ELSE @,
                                    !.excluded = IF it.excluded # <<>> THEN Tail(@) ELSE @])
                  /\ decoded' = Append(decoded, [range |-> out_range, meta |-> Head(it.meta)])
    /\ UNCHANGED <<tInc, tExc, enc, result>>
    /\ UNCHANGED mergeVars
    /\ UNCHANGED rangeVars

StoreNext ==
    EncodeEmpty \/ EncodeFirst \/ EncodeStep \/ EncodeFinish \/ Iter \/ DecodeNext

SpecStore == StoreInit /\ [][StoreNext]_vars

\* ================================================================ pipeline
\* try_from_ordered_iter is given the merge iterator, mapped to (range, meta)
\* pairs: it calls next() when it needs an item and stops at the first error

\* the encoder is waiting for an item of the merge iterator
EncoderPulls ==
    /\ enc.pc \in {"start", "loop"}
    /\ Len(enc.input) = Len(output)
    /\ ~returnedNone

PipeNextEnter == EncoderPulls /\ NextEnter

PipeNextPull == EncoderPulls /\ NextPull

PipeNextExhausted == EncoderPulls /\ NextExhausted

\* lines 76-78: the merge iterator yields nothing
PipeEncodeEmpty ==
    /\ returnedNone
    /\ output = <<>>
    /\ EncodeEmpty

\* lines 76-85: the first record of the merge iterator
PipeEncodeFirst ==
    /\ enc.pc = "start"
    /\ Len(output) = 1
    /\ EncodeFirstItem(output[1].range.start, output[1].range.end, output[1].meta)
    /\ UNCHANGED <<tInc, tExc, dec, decoded>>
    /\ UNCHANGED mergeVars
    /\ UNCHANGED rangeVars

\* lines 86-92: the next record of the merge iterator
PipeEncodeStep ==
    /\ enc.pc = "loop"
    /\ Len(output) = Len(enc.input) + 1
    /\ LET it == output[Len(output)]
       IN EncodeStepItem(it.range.start, it.range.end, it.meta)
    /\ UNCHANGED <<tInc, tExc, dec, decoded>>
    /\ UNCHANGED mergeVars
    /\ UNCHANGED rangeVars

\* lines 94-99: the merge iterator has returned None
PipeEncodeFinish ==
    /\ returnedNone
    /\ Len(enc.input) = Len(output)
    /\ EncodeFinish

PipeNext ==
    \/ PipeNextEnter
    \/ PipeNextPull
    \/ PipeNextExhausted
    \/ PipeEncodeEmpty
    \/ PipeEncodeFirst
    \/ PipeEncodeStep
    \/ PipeEncodeFinish

\* the merge engine feeding the compact store, TIncluded = TExcluded = u8
SpecPipeline == MergeInit /\ [][PipeNext]_vars

\* ============================================================ NonZeroRange
\* the ranges NonZeroRange::new accepts
ValidRanges == {r \in [start : Coords, end : Coords] : r.start < r.end}

\* no merge iterator and no compact store is driven
RangeInit ==
    /\ consumed = <<>>
    /\ fused = FALSE
    /\ remainers = <<>>
    /\ max_start = 0
    /\ pc = "idle"
    /\ first_end = None
    /\ output = <<>>
    /\ returnedNone = FALSE
    /\ tInc = U8Max
    /\ tExc = U8Max
    /\ enc = EncStart
    /\ result = None
    /\ dec = None
    /\ decoded = <<>>
    /\ nz = NoOp

\* NonZeroRange::try_from(start..end) on any pair of coordinates
TryFromOp ==
    /\ \E s \in Coords, e \in Coords :
         nz' = [op |-> "try_from", start |-> s, end |-> e,
                res |-> NonZeroRange_try_from(s, e)]
    /\ UNCHANGED mergeVars
    /\ UNCHANGED storeVars

\* a.overlaps(&b) and b.overlaps(&a) on any two valid ranges
OverlapsOp ==
    /\ \E a \in ValidRanges, b \in ValidRanges :
         nz' = [op |-> "overlaps", a |-> a, b |-> b,
                res |-> overlaps(a, b), rev |-> overlaps(b, a)]
    /\ UNCHANGED mergeVars
    /\ UNCHANGED storeVars

\* the builds of the crate: with and without overflow checks
Builds == {"debug", "release"}

\* coordinates and offsets of a u8 range, at both ends of the type
U8Coords == {0, 1, 2, 253, 254, 255}

\* the NonZeroRange<u8> values NonZeroRange::new accepts
U8Ranges == {r \in [start : U8Coords, end : U8Coords] : r.start < r.end}

\* r + k on a valid NonZeroRange<u8>
AddOp ==
    /\ \E r \in U8Ranges, k \in U8Coords, build \in Builds :
         nz' = [op |-> "add", r |-> r, k |-> k, build |-> build,
                res |-> NonZeroRange_add(r, k, U8Max, build)]
    /\ UNCHANGED mergeVars
    /\ UNCHANGED storeVars

\* r - k on a valid NonZeroRange<u8>
SubOp ==
    /\ \E r \in U8Ranges, k \in U8Coords, build \in Builds :
         nz' = [op |-> "sub", r |-> r, k |-> k, build |-> build,
                res |-> NonZeroRange_sub(r, k, U8Max, build)]
    /\ UNCHANGED mergeVars
    /\ UNCHANGED storeVars

RangeNext == TryFromOp \/ OverlapsOp \/ AddOp \/ SubOp

SpecRange == RangeInit /\ [][RangeNext]_vars

\* ===================================================== compact store claims
\* try_from_ordered_iter has returned
EncReturned == enc.pc \in {"ok", "err"}

\* try_from_ordered_iter has returned an error value and no store
ReturnedErr == enc.pc = "err" /\ result.some /\ ~result.value.ok

\* try_from_ordered_iter has returned a store
ReturnedOk == enc.pc = "ok" /\ result.some /\ result.value.ok

\* every interval is non-empty, starts strictly behind the previous one's end,
\* and every length fits TIncluded and every gap fits TExcluded
ValidInput(input) ==
    /\ input # <<>>
    /\ \A k \in 1..Len(input) :
         /\ input[k].range.start < input[k].range.end
         /\ input[k].range.end - input[k].range.start <= tInc
    /\ \A k \in 2..Len(input) :
         /\ input[k].range.start > input[k - 1].range.end
         /\ input[k].range.start - input[k - 1].range.end <= tExc

\* the (interval, metadata) pairs of the input, as iter() reports them
AsDecoded(input) ==
    [k \in 1..Len(input) |-> [range |-> input[k].range, meta |-> input[k].meta]]

\* C6 (round trip): for a non-empty input of non-empty, gap-separated intervals
\* whose lengths and gaps fit the narrow types, try_from_ordered_iter does not
\* fail, and iter() on the store yields exactly the input: same number of
\* items, same start, end and metadata, same order.
C6_RoundTrip ==
    /\ (EncReturned /\ ValidInput(enc.input)) => ReturnedOk
    /\ (dec.some /\ ValidInput(enc.input)) =>
          /\ Len(decoded) <= Len(enc.input)
          /\ decoded = SubSeq(AsDecoded(enc.input), 1, Len(decoded))
          /\ dec.value.done => decoded = AsDecoded(enc.input)

\* witness of C6: a store with a non-zero initial offset and at least two
\* intervals has been decoded to the end
C6_Witness ==
    /\ dec.some
    /\ dec.value.done
    /\ Len(decoded) >= 2
    /\ ValidInput(enc.input)
    /\ enc.input[1].range.start > 0

\* C7: try_from_ordered_iter returns an error value, and no store, whenever
\* some interval starts at or before the previous interval's end (overlap or
\* exact adjacency).
C7_NonPositiveGapIsError ==
    (\E k \in 2..Len(enc.input) :
        enc.input[k].range.start <= enc.input[k - 1].range.end)
    => ReturnedErr

\* witness of C7: two non-empty intervals that touch are rejected with the
\* "must be >" error of the gap
C7_Witness ==
    /\ ReturnedErr
    /\ \E k \in 2..Len(enc.input) :
         /\ enc.input[k].range.start = enc.input[k - 1].range.end
         /\ enc.input[k].range.start < enc.input[k].range.end
         /\ enc.input[k].range.end - enc.input[k].range.start <= tInc
         /\ result.value.err =
              MustBeGreater(enc.input[k].range.start, enc.input[k - 1].range.end)

\* C8: try_from_ordered_iter returns an error value whenever an interval's
\* length exceeds the largest TIncluded or a gap exceeds the largest
\* TExcluded, and every value held in included or excluded is the exact
\* length or gap it encodes.
C8_NarrowingIsError ==
    /\ ( \/ \E k \in 1..Len(enc.input) :
              /\ enc.input[k].range.start < enc.input[k].range.end
              /\ enc.input[k].range.end - enc.input[k].range.start > tInc
         \/ \E k \in 2..Len(enc.input) :
              enc.input[k].range.start - enc.input[k - 1].range.end > tExc )
       => ReturnedErr
    /\ \A k \in 1..Len(enc.included) :
         enc.included[k] = enc.input[k].range.end - enc.input[k].range.start
    /\ \A k \in 1..Len(enc.excluded) :
         enc.excluded[k] = enc.input[k + 1].range.start - enc.input[k].range.end
    /\ ReturnedOk =>
         /\ result.value.value.included = enc.included
         /\ result.value.value.excluded = enc.excluded

\* witness of C8: a gap that fits u16 but not the u8 chosen for TExcluded is
\* rejected with the conversion error
C8_Witness ==
    /\ ReturnedErr
    /\ result.value.err = OutOfRange
    /\ tExc = U8Max
    /\ Len(enc.input) >= 2
    /\ LET k == Len(enc.input)
       IN /\ enc.input[k].range.start - enc.input[k - 1].range.end > U8Max
          /\ enc.input[k].range.start - enc.input[k - 1].range.end <= U16Max
          /\ enc.input[k].range.start < enc.input[k].range.end
          /\ enc.input[k].range.end - enc.input[k].range.start <= tInc

\* C9: try_from_ordered_iter returns an error value whenever an interval of
\* the input, at any position, is empty or inverted (end <= start).
C9_EmptyIntervalIsError ==
    (\E k \in 1..Len(enc.input) :
        enc.input[k].range.end <= enc.input[k].range.start)
    => ReturnedErr

\* witness of C9: an empty interval behind a valid first one is rejected
C9_Witness ==
    /\ ReturnedErr
    /\ Len(enc.input) >= 2
    /\ LET k == Len(enc.input)
       IN /\ enc.input[k].range.end = enc.input[k].range.start
          /\ enc.input[k].range.start > enc.input[k - 1].range.end
          /\ result.value.err =
               MustBeGreater(enc.input[k].range.end, enc.input[k].range.start)

\* C10: try_from_ordered_iter returns an error value when the input is empty,
\* so every store it returns represents at least one interval.
C10_EmptyInputIsError ==
    /\ (EncReturned /\ enc.input = <<>>) => ReturnedErr
    /\ ReturnedOk =>
         /\ Len(result.value.value.included) >= 1
         /\ Len(enc.input) >= 1
    /\ (dec.some /\ dec.value.done) => Len(decoded) >= 1

\* witness of C10: the call on the empty input has returned
C10_Witness ==
    /\ EncReturned
    /\ enc.input = <<>>
    /\ result = Some(Err(RequiresOneItem))

\* C11: every store try_from_ordered_iter returns has
\* included.len() = meta.len() = excluded.len() + 1, every included[i] > 0,
\* every excluded[i] > 0, and initial_offset equal to the first input
\* interval's start.
C11_StoreInvariants ==
    ReturnedOk =>
        LET store == result.value.value
        IN /\ Len(store.included) = Len(store.meta)
           /\ Len(store.included) = Len(store.excluded) + 1
           /\ \A k \in 1..Len(store.included) : store.included[k] > 0
           /\ \A k \in 1..Len(store.excluded) : store.excluded[k] > 0
           /\ enc.input # <<>>
           /\ store.initial_offset = enc.input[1].range.start

\* witness of C11: a store of at least two intervals that does not start at 0
C11_Witness ==
    /\ ReturnedOk
    /\ Len(result.value.value.excluded) >= 1
    /\ result.value.value.initial_offset > 0

\* ===================================================== merge engine claims
\* coordinate c lies in the half-open range r
Covers(r, c) == r.start <= c /\ c < r.end

\* the coordinates covered by the ranges of a sequence of records
Coverage(seq) ==
    {c \in WideCoords : \E k \in 1..Len(seq) : Covers(seq[k].range, c)}

\* the run is complete: next() has returned None
Finished == returnedNone

\* some input record covering c has a priority above p
HigherCovers(c, p) ==
    \E k \in 1..Len(consumed) :
        Covers(consumed[k].range, c) /\ consumed[k].priority > p

\* C1: the records yielded by OrderedNonOverlappingRangeIter are pairwise
\* non-overlapping: for no two distinct yielded records a, b does
\* a.start < b.end and b.start < a.end hold.
C1_OutputNonOverlapping ==
    \A a \in 1..Len(output), b \in 1..Len(output) :
        a # b => ~overlaps(output[a].range, output[b].range)

\* C2: the records are yielded in ascending order of start: each yielded
\* record starts at or after the start of the record yielded before it.
C2_OutputSortedByStart ==
    \A a \in 1..Len(output) :
        a > 1 => output[a].range.start >= output[a - 1].range.start

\* C3: when the run is complete, the coordinates covered by the yielded
\* ranges are exactly the coordinates covered by the input ranges.
C3_CoveragePreserved ==
    Finished => Coverage(output) = Coverage(consumed)

\* witness of C3: a complete run in which an input was shortened or dropped
C3_Witness ==
    /\ Finished
    /\ Len(consumed) >= 2
    /\ \E i \in 1..Len(consumed) :
         \A a \in 1..Len(output) :
             output[a].meta = i => output[a].range # consumed[i].range

\* C4: when the run is complete, every yielded record that contains a
\* coordinate c carries the priority and metadata of an input record that
\* contains c and whose priority is the maximum among the inputs containing c.
C4_PriorityCorrect ==
    Finished =>
        \A a \in 1..Len(output) : \A c \in WideCoords :
            Covers(output[a].range, c) =>
                LET o == output[a]
                IN /\ o.meta \in 1..Len(consumed)
                   /\ Covers(consumed[o.meta].range, c)
                   /\ consumed[o.meta].priority = o.priority
                   /\ ~HigherCovers(c, o.priority)

\* C5 (tie-break): when the run is complete, for input records i before j of
\* equal priority that overlap: (a) a shared coordinate that no higher-priority
\* input covers is attributed to the first-seen record of that priority -
\* never to j, and to i itself unless a still earlier record of the same
\* priority covers it; (b) j contributes only coordinates at or beyond i's
\* end; (c) if j is contained in i, no yielded record stems from j.
C5_TieBreakFirstSeen ==
    Finished =>
        \A i \in 1..Len(consumed), j \in 1..Len(consumed) :
            ( /\ i < j
              /\ consumed[i].priority = consumed[j].priority
              /\ overlaps(consumed[i].range, consumed[j].range) )
            =>
            /\ \A c \in WideCoords :
                 ( /\ Covers(consumed[i].range, c)
                   /\ Covers(consumed[j].range, c)
                   /\ ~HigherCovers(c, consumed[i].priority) )
                 =>
                 /\ \E a \in 1..Len(output) : Covers(output[a].range, c)
                 /\ \A a \in 1..Len(output) :
                      Covers(output[a].range, c) =>
                        /\ output[a].meta <= i
                        /\ output[a].priority = consumed[i].priority
                        /\ ( (\A k \in 1..(i - 1) :
                                 ~( /\ consumed[k].priority = consumed[i].priority
                                    /\ Covers(consumed[k].range, c) ))
                             => output[a].meta = i )
            /\ \A a \in 1..Len(output) :
                 output[a].meta = j =>
                     output[a].range.start >= consumed[i].range.end
            /\ ( consumed[j].range.end <= consumed[i].range.end
                 => \A a \in 1..Len(output) : output[a].meta # j )

\* ------------------------------------------- merge engine: steps observed
\* the step pulls an item from upstream and inserts it (one loop iteration)
InsertStep == Len(consumed') = Len(consumed) + 1

\* the item the step inserts
Inserted == consumed'[Len(consumed')]

\* the step completes a next() call that returns a record
ReturnStep == Len(output') = Len(output) + 1

\* the record the step returns
Returned == output'[Len(output')]

\* the buffer as insert_remainer leaves it in an InsertStep, before the
\* pop_front of the same step takes its front
AfterInsert ==
    IF ReturnStep THEN <<Returned>> \o remainers' ELSE remainers'

\* the buffer with each entry's metadata replaced by its position, so that
\* the pieces insert_remainer derives from an entry can be told apart
RECURSIVE TrackedUpTo(_, _)
TrackedUpTo(q, n) ==
    IF n = 0 THEN <<>> ELSE Append(TrackedUpTo(q, n - 1), [q[n] EXCEPT !.meta = n])

Tracked(q) == TrackedUpTo(q, Len(q))

\* the coordinates covered by the entries of q that carry metadata m
CoveredBy(q, m) ==
    {c \in WideCoords : \E j \in 1..Len(q) : q[j].meta = m /\ Covers(q[j].range, c)}

\* C14 (buffer invariant): after every completed insert_remainer call the
\* remainder buffer is sorted ascending by start and its entries are mutually
\* non-overlapping: each entry ends at or before the start of the next.
C14_BufferSortedDisjoint ==
    [][ InsertStep =>
          \A k \in 1..(Len(AfterInsert) - 1) :
              /\ AfterInsert[k].range.start <= AfterInsert[k + 1].range.start
              /\ AfterInsert[k].range.end <= AfterInsert[k + 1].range.start ]_vars

\* C15: an insertion never enlarges an existing remainder: for every entry of
\* the buffer before insert_remainer, the coordinates covered afterwards by
\* that entry and the after-piece cloned from it are coordinates it covered
\* before, and the coordinates it lost lie in the inserted record's range.
C15_InsertOnlyShrinks ==
    [][ InsertStep =>
          LET before == remainers
              new == [Inserted EXCEPT !.meta = 0]
              after == insert_remainer(Tracked(before), new)
          IN /\ Len(after) = Len(AfterInsert)
             /\ \A j \in 1..Len(after) :
                  /\ after[j].range = AfterInsert[j].range
                  /\ after[j].priority = AfterInsert[j].priority
             /\ \A k \in 1..Len(before) :
                  LET was == {c \in WideCoords : Covers(before[k].range, c)}
                      is == CoveredBy(after, k)
                  IN /\ is \subseteq was
                     /\ \A c \in was \ is : Covers(Inserted.range, c) ]_vars

\* the step is the end of a next() call in which upstream returned None
ExhaustedStep == pc = "loop" /\ ~InsertStep

\* C16 (finality of emission): every record returned by next() in a call
\* during which upstream did not return None has an end strictly less than
\* max_start at the moment it is returned.
C16_ReturnedBehindMaxStart ==
    [][ (ReturnStep /\ ~ExhaustedStep) => Returned.range.end < max_start' ]_vars

\* a call that pulled from upstream has returned a record, upstream not yet
\* exhausted, and the record ends before max_start
C16_Witness ==
    /\ pc = "idle"
    /\ ~fused
    /\ output # <<>>
    /\ Len(consumed) >= 2
    /\ output[Len(output)].range.end < max_start

\* C17 (early return): if at entry to next() the buffer is non-empty and the
\* front's end is less than max_start, the call returns exactly the front,
\* pulls nothing from upstream, and leaves max_start and the other buffer
\* entries unchanged.
C17_EarlyReturnsFront ==
    [][ (pc = "idle" /\ remainers # <<>> /\ Head(remainers).range.end < max_start)
          => /\ output' = Append(output, Head(remainers))
             /\ remainers' = Tail(remainers)
             /\ consumed' = consumed
             /\ max_start' = max_start
             /\ fused' = fused
             /\ returnedNone' = returnedNone
             /\ pc' = "idle" ]_vars

\* the first call needed all three items (the second starts at or before
\* the first one's end), so the second record was returned by a call that
\* pulled nothing, and upstream has not been asked again
C17_Witness ==
    /\ pc = "idle"
    /\ ~fused
    /\ Len(consumed) = 3
    /\ Len(output) = 2
    /\ consumed[2].range.start <= consumed[1].range.end
    /\ output[2].range.end < max_start

\* C18 (drain and termination): repeated next() calls eventually return None;
\* once upstream is exhausted every completed call returns the current front
\* of the buffer (None if it is empty), so the buffered entries are emitted
\* front to back, each once, before the first None; and every call after the
\* first None returns None as well.
C18_DrainAndTerminate ==
    /\ <>returnedNone
    /\ [][ (fused' /\ pc' = "idle")
             => IF remainers = <<>>
                THEN returnedNone' /\ output' = output /\ remainers' = <<>>
                ELSE /\ output' = Append(output, Head(remainers))
                     /\ remainers' = Tail(remainers)
                     /\ returnedNone' = returnedNone ]_vars
    /\ [][ fused' => output' \o remainers' = output \o remainers ]_vars
    /\ [][ returnedNone
             => returnedNone' /\ output' = output /\ remainers' = <<>> ]_vars

\* None has been returned after two records that end at or behind max_start:
\* they could not be released while upstream still produced, so they were
\* drained from the buffer by two calls after exhaustion
C18_Witness ==
    /\ returnedNone
    /\ \E i \in 1..Len(output), j \in 1..Len(output) :
         /\ i < j
         /\ output[i].range.end >= max_start
         /\ output[j].range.end >= max_start

\* the input records are pairwise non-overlapping (touching allowed)
PairwiseDisjoint(seq) ==
    \A i \in 1..Len(seq), j \in 1..Len(seq) :
        i < j => ~overlaps(seq[i].range, seq[j].range)

\* C19 (identity on already-resolved input): if the sorted input records are
\* pairwise non-overlapping, the iterator yields exactly the input sequence,
\* same ranges, priorities and metadata in the same order.
C19_IdentityOnDisjointInput ==
    (Finished /\ PairwiseDisjoint(consumed)) => output = consumed

\* three disjoint records, two of them touching, the later one of higher
\* priority, have been passed through unchanged
C19_Witness ==
    /\ Finished
    /\ Len(consumed) >= 3
    /\ PairwiseDisjoint(consumed)
    /\ \E i \in 1..(Len(consumed) - 1) :
         /\ consumed[i].range.end = consumed[i + 1].range.start
         /\ consumed[i].priority < consumed[i + 1].priority
    /\ output = consumed

\* inner lies strictly inside outer
StrictlyInside(inner, outer) == outer.start < inner.start /\ inner.end < outer.end

\* seq contains, as three consecutive records, existing cut to the part before
\* new, new itself, and existing cut to the part after new
ContainsSplit(seq, existing, new) ==
    \E k \in 1..(Len(seq) - 2) :
        /\ seq[k] = [existing EXCEPT
                        !.range = Range(existing.range.start, new.range.start)]
        /\ seq[k + 1] = new
        /\ seq[k + 2] = [existing EXCEPT
                            !.range = Range(new.range.end, existing.range.end)]

\* input record j is of higher priority than input record i and lies strictly
\* inside it, and i is buffered whole when j arrives: no earlier record
\* overlaps i, and i cannot have been released since it ends behind j's start
SplitCase(i, j) ==
    /\ i < j
    /\ StrictlyInside(consumed[j].range, consumed[i].range)
    /\ consumed[i].priority < consumed[j].priority
    /\ \A k \in 1..(j - 1) : k # i => ~overlaps(consumed[k].range, consumed[i].range)

\* no record after j overlaps record i
NoLaterOverlap(i, j) ==
    \A k \in (j + 1)..Len(consumed) : ~overlaps(consumed[k].range, consumed[i].range)

C21_NoEmptyRecord ==
    /\ \A k \in 1..Len(remainers) : remainers[k].range.start < remainers[k].range.end
    /\ \A k \in 1..Len(output) : output[k].range.start < output[k].range.end

\* an input record was covered entirely by a remainder of at least its
\* priority, so that nothing of it is left, and another was cut to a part
C21_Witness ==
    /\ Finished
    /\ Len(output) < Len(consumed)
    /\ \E k \in 1..Len(output) :
         /\ output[k].range # consumed[output[k].meta].range
         /\ output[k].range.start < output[k].range.end

\* ========================================================= pipeline claims
\* C22 (pipeline composition), as stated: for every non-empty sorted input, encoding the
\* records the merge engine yields, with TIncluded and TExcluded wide enough
\* for every length and gap, never fails with an empty or inverted interval
\* error or a non-positive gap error.
C22_PipelineNeverRejects ==
    (consumed # <<>> /\ ReturnedErr) => result.value.err.kind # "must be >"

\* record k of the output starts behind the end of the record before it
Separated(k) == output[k].range.start > output[k - 1].range.end

\* C22 (pipeline composition), amended: encoding the records the merge engine
\* yields never fails with an empty or inverted interval error; it fails,
\* with the non-positive gap error of the first such pair, exactly when a
\* yielded record starts at or before the end of the record before it, and
\* returns a store when all yielded records are separated.
C22_PipelineRejectsAdjacent ==
    /\ (consumed # <<>> /\ ReturnedErr) =>
          LET k == Len(enc.input)
          IN /\ k >= 2
             /\ k = Len(output)
             /\ \A j \in 1..k : output[j].range.start < output[j].range.end
             /\ \A j \in 2..(k - 1) : Separated(j)
             /\ ~Separated(k)
             /\ result.value.err =
                    MustBeGreater(output[k].range.start, output[k - 1].range.end)
    /\ (consumed # <<>> /\ ReturnedOk) =>
          /\ Finished
          /\ output # <<>>
          /\ \A j \in 2..Len(output) : Separated(j)
          /\ result.value.value.meta = [j \in 1..Len(output) |-> output[j].meta]

\* overlapping input was merged into separated records and a store of two
\* or more intervals was built from them
C22_Witness ==
    /\ ReturnedOk
    /\ Len(output) >= 2
    /\ ~PairwiseDisjoint(consumed)

\* ===================================================== NonZeroRange claims
\* C12: NonZeroRange::try_from(start..end) returns the RangeZeroLenght error
\* carrying the given pair exactly when start >= end, and otherwise a range
\* with the same start and end; every range it returns has start < end.
C12_TryFromChecksEmpty ==
    nz.op = "try_from" =>
        /\ ~nz.res.ok <=> nz.start >= nz.end
        /\ ~nz.res.ok => nz.res.err = Range(nz.start, nz.end)
        /\ nz.res.ok =>
             /\ nz.res.value = Range(nz.start, nz.end)
             /\ nz.res.value.start < nz.res.value.end

\* witness of C12: an inverted pair was rejected
C12_Witness ==
    /\ nz.op = "try_from"
    /\ nz.start > nz.end
    /\ ~nz.res.ok

\* C13: for valid ranges a and b, a.overlaps(b) is true exactly when the
\* half-open intervals share a coordinate (a.start < b.end and
\* b.start < a.end); it equals b.overlaps(a) and is false when the ranges
\* only touch.
C13_OverlapsSharesCoordinate ==
    nz.op = "overlaps" =>
        /\ nz.res <=> \E c \in Coords : Covers(nz.a, c) /\ Covers(nz.b, c)
        /\ nz.res <=> (nz.a.start < nz.b.end /\ nz.b.start < nz.a.end)
        /\ nz.res = nz.rev
        /\ nz.a.end = nz.b.start => ~nz.res

\* witness of C13: two ranges that only touch were tested
C13_Witness ==
    /\ nz.op = "overlaps"
    /\ nz.a.end = nz.b.start
    /\ ~nz.res

\* C23 (translation preserves the invariant): for every valid NonZeroRange r
\* over a w-bit unsigned type and every offset k of that type, r + k and
\* r - k are ranges with start < end and the same length as r, the endpoints
\* computed as the machine computes them (modulo 2^w without overflow checks).
C23_TranslationPreservesInvariant ==
    (nz.op \in {"add", "sub"} /\ ~nz.res.panic) =>
        /\ nz.res.value.start < nz.res.value.end
        /\ NonZeroRange_len(nz.res.value, U8Max, nz.build)
              = NonZeroRange_len(nz.r, U8Max, nz.build)

====
